---- MODULE Spec2Model ----
(***************************************************************************)
(* Model of src/main.py: the EmailClient of the outreach script.           *)
(*                                                                         *)
(* The spreadsheet and the mail gateway are the environment: the sheet is  *)
(* a grid of string cells addressed in A1 notation, the mail gateway is    *)
(* the bag of messages it has accepted.  Every method of EmailClient is    *)
(* one action; an exception raised inside a method propagates to the       *)
(* module-level caller (lines 202-203), which has no handler, so the run   *)
(* of that client ends.                                                    *)
(***************************************************************************)
EXTENDS Integers, Sequences, FiniteSets, Bags, TLC

(***************************************************************************)
(* Bounds of the model.                                                    *)
(***************************************************************************)
\* number of EmailClient instances (runs of the script) that may coexist
NumClients == 2
\* number of data rows of the sheet (sheet rows 2 .. NumRows + 1)
NumRows == 2
\* method calls (constructor included) made in one behaviour, all clients
\* together
MaxOps == 5
\* largest column index _col_letter is run on in SpecCol
MaxIndex == 730
\* largest integer the decimal conversions int() / str() are tabulated for
MaxInt == 8
\* the cap a caller passes as email_limit in SpecLimit
SmallLimit == 1

Clients == 1..NumClients
RowNos == 0..(NumRows - 1)

(***************************************************************************)
(* Python values.  A cell is a string; None is the value zip_longest fills *)
(* in for a header that has no cell in a short row.                        *)
(***************************************************************************)
None == "<None>"

\* truthiness of a cell as `not x` tests it: None and "" are falsy
Falsy(v) == v = None \/ v = ""

\* str(x) as an f-string interpolates it
Str(v) == IF v = None THEN "None" ELSE v

\* int(x): TypeError for None, ValueError for a string that is no decimal
\* integer, the integer otherwise
PyInt(v) ==
    IF v = None THEN [exc |-> "TypeError", val |-> 0]
    ELSE IF \E n \in 0..MaxInt : ToString(n) = v
         THEN [exc |-> "", val |-> CHOOSE n \in 0..MaxInt : ToString(n) = v]
         ELSE [exc |-> "ValueError", val |-> 0]

Range(s) == {s[i] : i \in 1..Len(s)}

RECURSIVE Reverse(_)
\* letter[::-1]
Reverse(s) == IF s = <<>> THEN <<>> ELSE Append(Reverse(Tail(s)), Head(s))

RECURSIVE Join(_)
\* a Python string from its characters
Join(s) == IF s = <<>> THEN "" ELSE Head(s) \o Join(Tail(s))

(***************************************************************************)
(* _col_letter (lines 36-50).                                              *)
(***************************************************************************)
\* chr(ascii_a + k) for k in 0..25
Alphabet ==
    <<"A", "B", "C", "D", "E", "F", "G", "H", "I", "J", "K", "L", "M",
      "N", "O", "P", "Q", "R", "S", "T", "U", "V", "W", "X", "Y", "Z">>

\* a loop body that forgets the "- 1" of the zero-less digits
ColLoopBodyPlain(col, letter) ==
    [col |-> col \div 26, letter |-> Append(letter, Alphabet[(col % 26) + 1])]

\* one iteration of the while loop, lines 47-48
ColLoopBody(col, letter) ==
    [col |-> (col - 1) \div 26,
     letter |-> Append(letter, Alphabet[((col - 1) % 26) + 1])]

RECURSIVE ColLoop(_, _)
\* the while loop and the return, lines 46-50
ColLoop(col, letter) ==
    IF col > 0
    THEN LET b == ColLoopBody(col, letter) IN ColLoop(b.col, b.letter)
    ELSE Join(Reverse(letter))

\* _col_letter(col, start_index), lines 42-50
_col_letter(col, start_index) == ColLoop(col + 1 - start_index, <<>>)

RECURSIVE SheetColumn(_)
\* the spreadsheet's own name of its column number i (0-based): A..Z, AA..
SheetColumn(i) ==
    IF i < 26 THEN Alphabet[i + 1]
    ELSE SheetColumn((i \div 26) - 1) \o Alphabet[(i % 26) + 1]

(***************************************************************************)
(* The spreadsheet (the Sheets API behind _get_sheet_lines and             *)
(* _update_values) and the template files.                                 *)
(***************************************************************************)
\* the header row of the sheet: the column names the code looks up
Headers ==
    <<"Contact email", "Contact Name", "Language", "Emails Sent",
      "Approached (Date)">>

Width == Len(Headers)

\* the A1 name of the cell in column i (0-based) of sheet row r (1-based)
CellName(i, r) == SheetColumn(i) \o ToString(r)

CellNames == {CellName(i, r) : i \in 0..(Width - 1), r \in 1..(NumRows + 1)}

\* the template files on disk, "<step>_<language>.txt"
Files == {"0_EN.txt", "1_EN.txt", "0_LV.txt", "0_DE.txt"}

\* what datetime.now().strftime("%d.%m.%y") returns during the run
Today == "03.11.26"

\* contents a data row of the sheet may start with
InitRows ==
    << <<"a@x.com", "Ana", "EN", "", "">>,
       <<"b@x.com", "Bob", "EN", "0", "">>,
       <<"c@x.com", "Cy", "LV", "1", "01.11.26">>,
       <<"", "Dan", "EN", "1", "01.11.26">>,
       <<"e@x.com", "Eve", "DE", "0", "">>,
       <<"f@x.com", "Fay", "EN", "", "01.11.26">> >>

\* the number of sheets InitRows fills, NumRows rows each
NumSheets == (Len(InitRows) + NumRows - 1) \div NumRows

\* the k-th such sheet: data row r (0-based) holds InitRows[k * NumRows + r + 1],
\* counted cyclically
InitSheet(k) ==
    [name \in CellNames |->
        LET i == CHOOSE i \in 0..(Width - 1) :
                    \E r \in 1..(NumRows + 1) : CellName(i, r) = name
            r == CHOOSE r \in 1..(NumRows + 1) : CellName(i, r) = name
        IN  IF r = 1 THEN Headers[i + 1]
            ELSE InitRows[((k * NumRows + r - 2) % Len(InitRows)) + 1][i + 1]]

RECURSIVE Trim(_)
\* the Sheets API omits the trailing empty cells of a row
Trim(cells) ==
    IF cells # <<>> /\ cells[Len(cells)] = ""
    THEN Trim(SubSeq(cells, 1, Len(cells) - 1))
    ELSE cells

\* values().get(range=RANGE_NAME): the rows of the sheet, top to bottom
SheetValues(sh) ==
    [r \in 1..(NumRows + 1) |-> Trim([i \in 1..Width |-> sh[CellName(i - 1, r)]])]

\* _get_sheet_lines, lines 77-91: (values[0], values[1:])
_get_sheet_lines(sh) ==
    LET values == SheetValues(sh)
    IN  [cols |-> values[1], rows |-> SubSeq(values, 2, Len(values))]

\* the range "<cell>:<cell>" that denotes the single cell, per cell
SingleCellRange == [name \in CellNames |-> name \o ":" \o name]

\* values().update(range, body) on a single-cell range "<cell>:<cell>"
SheetUpdate(sh, range, value) ==
    [name \in CellNames |-> IF SingleCellRange[name] = range THEN value ELSE sh[name]]

\* dict(zip_longest(self.cols, row_list)), lines 119, 156, 174
RowDict(cols, row_list) ==
    [h \in Range(cols) |->
        LET i == CHOOSE i \in 1..Len(cols) :
                    cols[i] = h /\ \A j \in (i + 1)..Len(cols) : cols[j] # h
        IN  IF i <= Len(row_list) THEN row_list[i] ELSE None]

\* a mapping that numbers the headers from 1 although start_index is 0
ColsMappingOneBased(cols) ==
    [h \in Range(cols) |->
        LET i == CHOOSE i \in 1..Len(cols) :
                    cols[i] = h /\ \A j \in (i + 1)..Len(cols) : cols[j] # h
        IN  _col_letter(i, 0)]

\* {v: self._col_letter(i) for i, v in enumerate(cols)}, line 31
ColsMapping(cols) ==
    [h \in Range(cols) |->
        LET i == CHOOSE i \in 1..Len(cols) :
                    cols[i] = h /\ \A j \in (i + 1)..Len(cols) : cols[j] # h
        IN  _col_letter(i - 1, 0)]

(***************************************************************************)
(* State.                                                                  *)
(***************************************************************************)
VARIABLES
    sheet,       \* the spreadsheet: A1 cell name -> cell text
    client,      \* per EmailClient instance: its run status and its fields
    mail,        \* the mail gateway: the bag of messages it accepted, each with
                 \* the client and row it was sent for
    lastOp,      \* what the last method call did (its I/O, its exception)
    unrecorded,  \* per client: rows mailed by it and not yet updated by it
    ops,         \* the number of method calls made so far
    index,       \* SpecCol: the argument of the _col_letter call under way
    col,         \* SpecCol: the local col
    letter,      \* SpecCol: the local letter, as its characters
    ret,         \* SpecCol: the value _col_letter returned
    cpc          \* SpecCol: the position in _col_letter

vars == <<sheet, client, mail, lastOp, unrecorded, ops, index, col, letter, ret, cpc>>

mainVars == <<sheet, client, mail, lastOp, unrecorded, ops>>
colVars == <<index, col, letter, ret, cpc>>

\* the default of the email_limit parameter, line 26
DefaultEmailLimit == 10

\* the subject the module-level caller passes, line 203
Subject == "hehe"

\* the exceptions a call of the Google APIs or of _auth may end with
ApiOutcomes == {"ok", "AuthError", "HttpError"}

\* how the two _update_values calls of one _after_email may end: the second
\* is only made when the first returned
AfterOutcomes == {o \in ApiOutcomes \X ApiOutcomes : o[1] = "ok" \/ o[2] = "ok"}

NoClient ==
    [status |-> "none", exc |-> "", cols |-> <<>>, rows |-> <<>>,
     cols_mapping |-> <<>>, email_limit |-> 0]

NoText == [template |-> "", name |-> ""]
NoMsg == [To |-> "", Subject |-> "", body |-> NoText]

NoOp ==
    [op |-> "none", client |-> 0, row |-> 0, exc |-> "", writes |-> <<>>,
     mailCalls |-> 0, msg |-> NoMsg, step |-> 0, pending |-> {}]

(***************************************************************************)
(* The methods, as functions of the client's fields and the environment.   *)
(***************************************************************************)
\* a template lookup that falls back to the first template of the language
GetEmailTextFallback(language, email_no) ==
    LET filename == ToString(email_no) \o "_" \o Str(language) \o ".txt"
        first == "0_" \o Str(language) \o ".txt"
    IN  IF filename \in Files THEN [exc |-> "", text |-> filename]
        ELSE [exc |-> "", text |-> first]

\* _get_email_text, lines 142-152: the text of file "<email_no>_<language>.txt"
_get_email_text(language, email_no) ==
    LET filename == ToString(email_no) \o "_" \o Str(language) \o ".txt"
    IN  IF filename \in Files THEN [exc |-> "", text |-> filename]
        ELSE [exc |-> "FileNotFoundError", text |-> ""]

\* _format_email_text, lines 154-163
_format_email_text(self, row_no) ==
    LET row == RowDict(self.cols, self.rows[row_no + 1])
        language == row["Language"]
        email_no == PyInt(row["Emails Sent"])
    IN  IF email_no.exc # "" THEN [exc |-> email_no.exc, text |-> NoText, step |-> 0]
        ELSE LET text == _get_email_text(language, email_no.val)
             IN  IF text.exc # "" THEN [exc |-> text.exc, text |-> NoText, step |-> email_no.val]
                 ELSE [exc |-> "",
                       text |-> [template |-> text.text, name |-> Str(row["Contact Name"])],
                       step |-> email_no.val]

\* the Gmail API refuses a message that names no recipient
Deliverable(msg) == msg.To \notin {"", "None"}

\* the body of _send_email, lines 117-140; o is how the Gmail API call ends
SendResult(self, row_no, subject, o) ==
    LET row == RowDict(self.cols, self.rows[row_no + 1])
        body == _format_email_text(self, row_no)
        message == [To |-> Str(row["Contact email"]), Subject |-> subject, body |-> body.text]
    IN  IF body.exc # ""
        THEN [exc |-> body.exc, mailCalls |-> 0, msg |-> NoMsg, step |-> body.step]
        ELSE IF o = "ok" /\ Deliverable(message)
        THEN [exc |-> "", mailCalls |-> 1, msg |-> message, step |-> body.step]
        ELSE [exc |-> "HttpError", mailCalls |-> 1, msg |-> message, step |-> body.step]

\* _update_values, lines 93-115, on single-cell range; o is how it ends:
\* _auth() (line 99) or the update call (lines 103-113) may raise
_update_values(sh, range, value, o) ==
    IF o = "ok" THEN [exc |-> "", sheet |-> SheetUpdate(sh, range, value)]
    ELSE [exc |-> o, sheet |-> sh]

\* a range that is one sheet row too high, as if row_no were aligned by 1
CellRangeRowAbove(col_letter, row_no) ==
    col_letter \o ToString(row_no - 1) \o ":" \o col_letter \o ToString(row_no - 1)

\* the single-cell range of lines 183 and 193
CellRange(col_letter, row_no) ==
    col_letter \o ToString(row_no) \o ":" \o col_letter \o ToString(row_no)

\* the count _after_email writes, line 190
NextEmailsSent(emails_sent) ==
    IF Falsy(emails_sent) THEN [exc |-> "", val |-> 0]
    ELSE LET n == PyInt(emails_sent)
         IN  IF n.exc # "" THEN n ELSE [exc |-> "", val |-> n.val + 1]

\* an _after_email body that writes the count first and the date second
AfterResultCountFirst(self, sh, row_no0, o1, o2) ==
    LET row == RowDict(self.cols, self.rows[row_no0 + 1])
        row_no == row_no0 + 2
        approached_date == row["Approached (Date)"]
        emails_sent == NextEmailsSent(row["Emails Sent"])
        count_range == CellRange(self.cols_mapping["Emails Sent"], row_no)
        date_range == CellRange(self.cols_mapping["Approached (Date)"], row_no)
        w1 == _update_values(sh, count_range, ToString(emails_sent.val), o1)
        writes1 == <<[range |-> count_range, value |-> ToString(emails_sent.val)]>>
        w2 == IF Falsy(approached_date)
              THEN _update_values(w1.sheet, date_range, Today, o2)
              ELSE [exc |-> "", sheet |-> w1.sheet]
    IN  IF emails_sent.exc # "" THEN [exc |-> emails_sent.exc, sheet |-> sh, writes |-> <<>>]
        ELSE IF w1.exc # "" THEN [exc |-> w1.exc, sheet |-> sh, writes |-> <<>>]
        ELSE IF w2.exc # "" THEN [exc |-> w2.exc, sheet |-> w1.sheet, writes |-> writes1]
        ELSE [exc |-> "", sheet |-> w2.sheet,
              writes |-> IF Falsy(approached_date)
                         THEN Append(writes1, [range |-> date_range, value |-> Today])
                         ELSE writes1]

\* the body of _after_email, lines 165-196; o1 and o2 are how its two
\* _update_values calls end
AfterResult(self, sh, row_no0, o1, o2) ==
    LET row == RowDict(self.cols, self.rows[row_no0 + 1])
        row_no == row_no0 + 2
        approached_date == row["Approached (Date)"]
        date_range == CellRange(self.cols_mapping["Approached (Date)"], row_no)
        w1 == IF Falsy(approached_date)
              THEN _update_values(sh, date_range, Today, o1)
              ELSE [exc |-> "", sheet |-> sh]
        writes1 == IF Falsy(approached_date) /\ w1.exc = ""
                   THEN <<[range |-> date_range, value |-> Today]>>
                   ELSE <<>>
        emails_sent == NextEmailsSent(row["Emails Sent"])
        count_range == CellRange(self.cols_mapping["Emails Sent"], row_no)
        w2 == _update_values(w1.sheet, count_range, ToString(emails_sent.val), o2)
    IN  IF w1.exc # "" THEN [exc |-> w1.exc, sheet |-> sh, writes |-> <<>>]
        ELSE IF emails_sent.exc # ""
        THEN [exc |-> emails_sent.exc, sheet |-> w1.sheet, writes |-> writes1]
        ELSE IF w2.exc # "" THEN [exc |-> w2.exc, sheet |-> w1.sheet, writes |-> writes1]
        ELSE [exc |-> "", sheet |-> w2.sheet,
              writes |-> Append(writes1, [range |-> count_range,
                                          value |-> ToString(emails_sent.val)])]

\* the client after a method that ended with exception exc ("" for none):
\* the module-level caller, lines 202-203, catches nothing, so the process
\* and the instance end
Raise(self, exc) ==
    IF exc = "" THEN self ELSE [NoClient EXCEPT !.status = "aborted", !.exc = exc]

(***************************************************************************)
(* The methods as actions.                                                 *)
(***************************************************************************)
\* EmailClient(), lines 26-34: _auth (line 27) or the sheet read (line 28)
\* may raise; otherwise the table is loaded and the letters are mapped.
\* Instances are numbered in the order they are created.
__init__(c, o) ==
    /\ ops < MaxOps
    /\ client[c].status = "none"
    /\ \A d \in Clients : d < c => client[d].status # "none"
    /\ client' = [client EXCEPT ![c] =
            IF o # "ok" THEN Raise(NoClient, o)
            ELSE LET t == _get_sheet_lines(sheet)
                 IN  [status |-> "ready", exc |-> "", cols |-> t.cols, rows |-> t.rows,
                      cols_mapping |-> ColsMapping(t.cols),
                      email_limit |-> DefaultEmailLimit]]
    /\ lastOp' = [NoOp EXCEPT !.op = "init", !.client = c, !.exc = IF o = "ok" THEN "" ELSE o]
    /\ ops' = ops + 1
    /\ UNCHANGED <<sheet, mail, unrecorded, colVars>>

\* a _send_email that records the progress on the sheet before it sends
SendEmailRecordFirst(c, row_no, o) ==
    /\ ops < MaxOps
    /\ client[c].status = "ready"
    /\ \E r \in {SendResult(client[c], row_no, Subject, o)} :
       \E w \in {AfterResult(client[c], sheet, row_no, "ok", "ok")} :
           /\ mail' = IF r.exc = ""
                      THEN mail (+) SetToBag({[client |-> c, row |-> row_no, step |-> r.step, msg |-> r.msg]})
                      ELSE mail
           /\ sheet' = IF r.mailCalls = 1 THEN w.sheet ELSE sheet
           /\ client' = [client EXCEPT ![c] = Raise(@, r.exc)]
           /\ unrecorded' = unrecorded
           /\ lastOp' = [op |-> "send", client |-> c, row |-> row_no, exc |-> r.exc,
                         writes |-> IF r.mailCalls = 1 THEN w.writes ELSE <<>>,
                         mailCalls |-> r.mailCalls, msg |-> r.msg,
                         step |-> r.step, pending |-> unrecorded[c]]
    /\ ops' = ops + 1
    /\ UNCHANGED colVars

\* _send_email(subject, row_no), lines 117-140
_send_email(c, row_no, o) ==
    /\ ops < MaxOps
    /\ client[c].status = "ready"
    /\ \E r \in {SendResult(client[c], row_no, Subject, o)} :
           /\ mail' = IF r.exc = ""
                      THEN mail (+) SetToBag({[client |-> c, row |-> row_no, step |-> r.step, msg |-> r.msg]})
                      ELSE mail
           /\ client' = [client EXCEPT ![c] = Raise(@, r.exc)]
           /\ unrecorded' = [unrecorded EXCEPT ![c] = IF r.exc = "" THEN @ \cup {row_no} ELSE @]
           /\ lastOp' = [op |-> "send", client |-> c, row |-> row_no, exc |-> r.exc,
                         writes |-> <<>>, mailCalls |-> r.mailCalls, msg |-> r.msg,
                         step |-> r.step, pending |-> unrecorded[c]]
    /\ ops' = ops + 1
    /\ UNCHANGED <<sheet, colVars>>

\* an _after_email that, when a sheet write fails, sends the row's mail again
AfterEmailResend(c, row_no, o1, o2) ==
    /\ ops < MaxOps
    /\ client[c].status = "ready"
    /\ \E r \in {AfterResult(client[c], sheet, row_no, o1, o2)} :
       \E m \in {SendResult(client[c], row_no, Subject, "ok")} :
           /\ sheet' = r.sheet
           /\ mail' = IF r.exc # "" /\ m.exc = ""
                      THEN mail (+) SetToBag({[client |-> c, row |-> row_no, step |-> m.step, msg |-> m.msg]})
                      ELSE mail
           /\ client' = [client EXCEPT ![c] = Raise(@, r.exc)]
           /\ unrecorded' = [unrecorded EXCEPT ![c] = IF r.exc = "" THEN @ \ {row_no} ELSE @]
           /\ lastOp' = [NoOp EXCEPT !.op = "after", !.client = c, !.row = row_no,
                                     !.exc = r.exc, !.writes = r.writes,
                                     !.pending = unrecorded[c]]
    /\ ops' = ops + 1
    /\ UNCHANGED colVars

\* an _after_email that loads the table again after it has written
AfterEmailReload(c, row_no, o1, o2) ==
    /\ ops < MaxOps
    /\ client[c].status = "ready"
    /\ \E r \in {AfterResult(client[c], sheet, row_no, o1, o2)} :
           /\ sheet' = r.sheet
           /\ client' = [client EXCEPT ![c] =
                  IF r.exc = "" THEN [@ EXCEPT !.rows = _get_sheet_lines(r.sheet).rows]
                  ELSE Raise(@, r.exc)]
           /\ unrecorded' = [unrecorded EXCEPT ![c] = IF r.exc = "" THEN @ \ {row_no} ELSE @]
           /\ lastOp' = [NoOp EXCEPT !.op = "after", !.client = c, !.row = row_no,
                                     !.exc = r.exc, !.writes = r.writes,
                                     !.pending = unrecorded[c]]
    /\ ops' = ops + 1
    /\ UNCHANGED <<mail, colVars>>

\* _after_email(row_no), lines 165-196
_after_email(c, row_no, o1, o2) ==
    /\ ops < MaxOps
    /\ client[c].status = "ready"
    /\ \E r \in {AfterResult(client[c], sheet, row_no, o1, o2)} :
           /\ sheet' = r.sheet
           /\ client' = [client EXCEPT ![c] = Raise(@, r.exc)]
           /\ unrecorded' = [unrecorded EXCEPT ![c] = IF r.exc = "" THEN @ \ {row_no} ELSE @]
           /\ lastOp' = [NoOp EXCEPT !.op = "after", !.client = c, !.row = row_no,
                                     !.exc = r.exc, !.writes = r.writes,
                                     !.pending = unrecorded[c]]
    /\ ops' = ops + 1
    /\ UNCHANGED <<mail, colVars>>

\* the script ends, after line 203
Exit(c) ==
    /\ client[c].status = "ready"
    /\ client' = [client EXCEPT ![c] = [NoClient EXCEPT !.status = "exited"]]
    /\ lastOp' = [NoOp EXCEPT !.op = "exit", !.client = c, !.pending = unrecorded[c]]
    /\ UNCHANGED <<sheet, mail, unrecorded, ops, colVars>>

ColIdle == index = 0 /\ col = 0 /\ letter = <<>> /\ ret = "" /\ cpc = "idle"

Init ==
    /\ \E k \in 0..(NumSheets - 1) : sheet = InitSheet(k)
    /\ client = [c \in Clients |-> NoClient]
    /\ mail = EmptyBag
    /\ lastOp = NoOp
    /\ unrecorded = [c \in Clients |-> {}]
    /\ ops = 0
    /\ ColIdle

Next ==
    \/ \E c \in Clients, o \in ApiOutcomes : __init__(c, o)
    \/ \E c \in Clients, row_no \in RowNos, o \in {"ok", "HttpError"} : _send_email(c, row_no, o)
    \/ \E c \in Clients, row_no \in RowNos, o \in AfterOutcomes : _after_email(c, row_no, o[1], o[2])
    \/ \E c \in Clients : Exit(c)

Spec == Init /\ [][Next]_vars

(***************************************************************************)
(* The same methods for callers that pass email_limit to the constructor.  *)
(***************************************************************************)
\* the values of the email_limit argument: the default and a small cap
EmailLimits == {DefaultEmailLimit, SmallLimit}

\* EmailClient(email_limit), lines 26-34
InitWithLimit(c, o, email_limit) ==
    /\ ops < MaxOps
    /\ client[c].status = "none"
    /\ \A d \in Clients : d < c => client[d].status # "none"
    /\ client' = [client EXCEPT ![c] =
            IF o # "ok" THEN Raise(NoClient, o)
            ELSE LET t == _get_sheet_lines(sheet)
                 IN  [status |-> "ready", exc |-> "", cols |-> t.cols, rows |-> t.rows,
                      cols_mapping |-> ColsMapping(t.cols),
                      email_limit |-> email_limit]]
    /\ lastOp' = [NoOp EXCEPT !.op = "init", !.client = c, !.exc = IF o = "ok" THEN "" ELSE o]
    /\ ops' = ops + 1
    /\ UNCHANGED <<sheet, mail, unrecorded, colVars>>

NextLimit ==
    \/ \E c \in Clients, o \in ApiOutcomes, l \in EmailLimits : InitWithLimit(c, o, l)
    \/ \E c \in Clients, row_no \in RowNos, o \in {"ok", "HttpError"} : _send_email(c, row_no, o)
    \/ \E c \in Clients, row_no \in RowNos, o \in AfterOutcomes : _after_email(c, row_no, o[1], o[2])
    \/ \E c \in Clients : Exit(c)

SpecLimit == Init /\ [][NextLimit]_vars

(***************************************************************************)
(* _col_letter step by step, on every index up to MaxIndex.                *)
(***************************************************************************)
\* lines 42-44, with start_index = 0
ColEnter ==
    /\ cpc = "call"
    /\ col' = index + 1 - 0
    /\ letter' = <<>>
    /\ cpc' = "loop"
    /\ UNCHANGED <<index, ret, mainVars>>

\* lines 46-48: one iteration
ColIterate ==
    /\ cpc = "loop"
    /\ col > 0
    /\ LET b == ColLoopBody(col, letter)
       IN  col' = b.col /\ letter' = b.letter
    /\ UNCHANGED <<index, ret, cpc, mainVars>>

\* line 50, when the loop condition of line 46 fails
ColReturn ==
    /\ cpc = "loop"
    /\ ~(col > 0)
    /\ ret' = Join(Reverse(letter))
    /\ cpc' = "returned"
    /\ UNCHANGED <<index, col, letter, mainVars>>

InitCol ==
    /\ sheet = InitSheet(0)
    /\ client = [c \in Clients |-> NoClient]
    /\ mail = EmptyBag
    /\ lastOp = NoOp
    /\ unrecorded = [c \in Clients |-> {}]
    /\ ops = 0
    /\ index \in 0..MaxIndex
    /\ col = 0
    /\ letter = <<>>
    /\ ret = ""
    /\ cpc = "call"

NextCol == ColEnter \/ ColIterate \/ ColReturn

SpecCol == InitCol /\ [][NextCol]_vars /\ WF_vars(NextCol)

(***************************************************************************)
(* Properties.                                                             *)
(***************************************************************************)
\* the position (0-based) of header h in the sheet's header row
HeaderIndex(h) == CHOOSE i \in 0..(Width - 1) : Headers[i + 1] = h

\* the text of the cell of data row row_no (0-based) under header h
Cell(sh, h, row_no) == sh[CellName(HeaderIndex(h), row_no + 2)]

\* the single-cell range of that cell
RangeOf(h, row_no) == SingleCellRange[CellName(HeaderIndex(h), row_no + 2)]

\* a count cell as a number, the empty cell counting as 0
CountOf(v) == IF Falsy(v) THEN 0 ELSE PyInt(v).val

\* the row of the client's loaded table, by header
CachedRow(self, row_no) == RowDict(self.cols, self.rows[row_no + 1])

\* no call of the Google APIs has failed so far
NoGatewayFailure == \A c \in Clients : client[c].exc \notin {"AuthError", "HttpError"}

\* C8: _col_letter(index) with start_index 0 returns the bijective base-26
\* column name of index (0 -> A, 25 -> Z, 26 -> AA, 701 -> ZZ, 702 -> AAA),
\* never the empty string, and its loop terminates for every index.
C8_ColLetterReturned ==
    cpc = "returned" =>
        /\ ret = SheetColumn(index)
        /\ ret = _col_letter(index, 0)
        /\ ret # ""
        /\ (index = 0 => ret = "A")
        /\ (index = 25 => ret = "Z")
        /\ (index = 26 => ret = "AA")
        /\ (index = 27 => ret = "AB")
        /\ (index = 701 => ret = "ZZ")
        /\ (index = 702 => ret = "AAA")

C1_NoDuplicateSend ==
    NoGatewayFailure =>
        /\ \A m \in BagToSet(mail) : CopiesIn(m, mail) <= 1
        /\ \A m1, m2 \in BagToSet(mail) :
              (m1.row = m2.row /\ m1.step = m2.step) => m1 = m2

\* C2: a step in which _send_email ends with the transport error of the mail
\* gateway performs no sheet write and leaves every cell of the sheet as it was.
C2_FailedSendWritesNothing ==
    [][(lastOp'.op = "send" /\ lastOp'.exc = "HttpError")
          => (sheet' = sheet /\ lastOp'.writes = <<>>)]_vars

C2_Witness ==
    /\ lastOp.op = "send"
    /\ lastOp.exc = "HttpError"
    /\ lastOp.mailCalls = 1
    /\ Deliverable(lastOp.msg)

\* C3: every confirmed send of a row is followed by that row's state update
\* before the client sends again or its run ends: no send starts, and no run
\* ends, while a mailed row of that client is not yet updated.
C3_SendThenUpdate ==
    \A c \in Clients :
        /\ client[c].status = "exited" => unrecorded[c] = {}
        /\ (lastOp.op = "send" /\ lastOp.client = c) => lastOp.pending = {}

\* C4: no step lowers the 'Emails Sent' value the sheet holds for a row.
C4_CountNeverDecreases ==
    [][\A r \in RowNos :
          CountOf(Cell(sheet', "Emails Sent", r)) >= CountOf(Cell(sheet, "Emails Sent", r))]_vars

\* C5: once the sheet holds a date for a row, no step writes the row's
\* 'Approached (Date)' cell again.
C5_DateWrittenOnce ==
    [][\A r \in RowNos :
          Cell(sheet, "Approached (Date)", r) # "" =>
              \A i \in 1..Len(lastOp'.writes) :
                  lastOp'.writes[i].range # RangeOf("Approached (Date)", r)]_vars

\* C6: the count a completed state update writes is the row's count before the
\* send plus one, the empty cell counting as 0 (so 1 for an empty cell).
C6_WritesCountPlusOne ==
    [][(lastOp'.op = "after" /\ lastOp'.exc = "") =>
          LET w == lastOp'.writes[Len(lastOp'.writes)]
              before == CachedRow(client[lastOp'.client], lastOp'.row)["Emails Sent"]
          IN  /\ w.range = RangeOf("Emails Sent", lastOp'.row)
              /\ w.value = ToString(CountOf(before) + 1)]_vars

\* C7: _send_email on a row whose 'Emails Sent' cell is empty or missing, when
\* template 0 of the row's language exists, selects "0_<language>" and calls
\* the mail gateway with it.
C7_EmptyCountIsStepZero ==
    [][\A c \in Clients, r \in RowNos :
          (/\ lastOp'.op = "send" /\ lastOp'.client = c /\ lastOp'.row = r
           /\ Falsy(CachedRow(client[c], r)["Emails Sent"])
           /\ ("0_" \o Str(CachedRow(client[c], r)["Language"]) \o ".txt") \in Files)
          => /\ lastOp'.mailCalls = 1
             /\ lastOp'.msg.body.template =
                    "0_" \o Str(CachedRow(client[c], r)["Language"]) \o ".txt"]_vars

\* the row is at a step for which its language has no template file
NoTemplateFor(self, row_no) ==
    LET row == CachedRow(self, row_no)
        n == PyInt(row["Emails Sent"])
    IN  /\ n.exc = ""
        /\ (ToString(n.val) \o "_" \o Str(row["Language"]) \o ".txt") \notin Files

\* C9: _send_email on a row at a step N that has no template N in the row's
\* language ends without calling the mail gateway and without a sheet write.
C9_NoTemplateNoIO ==
    [][\A c \in Clients, r \in RowNos :
          (/\ lastOp'.op = "send" /\ lastOp'.client = c /\ lastOp'.row = r
           /\ NoTemplateFor(client[c], r))
          => /\ lastOp'.mailCalls = 0
             /\ lastOp'.writes = <<>>
             /\ mail' = mail
             /\ sheet' = sheet]_vars

C9_Witness ==
    /\ lastOp.op = "send"
    /\ lastOp.exc = "FileNotFoundError"
    /\ lastOp.step = 1
    /\ lastOp.mailCalls = 0

\* C10: after a row-level error of _send_email (template not found, mail send
\* failure) the run goes on: the client is still there to process other rows.
C10_RowErrorsDoNotAbort ==
    (lastOp.op = "send" /\ lastOp.exc \in {"FileNotFoundError", "HttpError"})
        => client[lastOp.client].status = "ready"

\* C11: an authentication failure never comes after a mail was sent: no
\* method call ends in the auth error while a row mailed by that client
\* awaits its sheet write.
C11_AuthFailsBeforeAnyRow ==
    lastOp.exc = "AuthError" => lastOp.pending = {}

\* C12: a send the mail gateway accepts uses the template of the step and
\* language the sheet holds for the row when the send starts.
C12_SendReadsFresh ==
    [][\A r \in RowNos :
          (lastOp'.op = "send" /\ lastOp'.row = r /\ lastOp'.exc = "") =>
              /\ lastOp'.step = CountOf(Cell(sheet, "Emails Sent", r))
              /\ lastOp'.msg.body.template =
                     ToString(CountOf(Cell(sheet, "Emails Sent", r))) \o "_"
                         \o Cell(sheet, "Language", r) \o ".txt"]_vars

\* C13: _send_email on a row whose language is neither EN nor LV ends with an
\* error and no mail, whatever template files exist.
C13_OtherLanguageFails ==
    [][\A c \in Clients, r \in RowNos :
          (/\ lastOp'.op = "send" /\ lastOp'.client = c /\ lastOp'.row = r
           /\ CachedRow(client[c], r)["Language"] \notin {"EN", "LV"})
          => /\ lastOp'.exc # ""
             /\ lastOp'.mailCalls = 0
             /\ mail' = mail]_vars

\* C14: the mail gateway is never called with a message whose recipient is
\* absent: a row without 'Contact email' fails before the gateway call.
C14_NoCallWithoutRecipient ==
    (lastOp.op = "send" /\ lastOp.mailCalls = 1) => lastOp.msg.To \notin {"", "None"}

\* C15: nothing is retried: a method call invokes the mail gateway at most
\* once and accepts at most one message, writes no cell twice, and a step in
\* which _after_email fails sends nothing and ends the client's run.
C15_NoRetry ==
    [][/\ lastOp'.mailCalls <= 1
       /\ BagCardinality(mail') <= BagCardinality(mail) + 1
       /\ (mail' # mail => lastOp'.op = "send")
       /\ \A i, j \in 1..Len(lastOp'.writes) :
              i # j => lastOp'.writes[i].range # lastOp'.writes[j].range
       /\ (lastOp'.op = "after" /\ lastOp'.exc # "") =>
              /\ mail' = mail
              /\ lastOp'.mailCalls = 0
              /\ client'[lastOp'.client].status = "aborted"]_vars

C15_Witness ==
    /\ lastOp.op = "after"
    /\ lastOp.exc = "HttpError"
    /\ lastOp.row \in lastOp.pending
    /\ BagCardinality(mail) = 1

\* the number of messages the mail gateway accepted from client c
SentBy(c) ==
    BagCardinality([m \in {x \in BagToSet(mail) : x.client = c} |-> mail[m]])

\* C16: the number of emails a client has sent in its run never exceeds its
\* email_limit.
C16_LimitCapsSends ==
    \A c \in Clients : client[c].status = "ready" => SentBy(c) <= client[c].email_limit

\* C17: _after_email(row_no) writes only the 'Approached (Date)' and 'Emails
\* Sent' cells of sheet row row_no + 2 (E and D here), each as a single-cell
\* range; every other cell and the loaded tables stay as they were.
C17_UpdateFrame ==
    [][\A c \in Clients, r \in RowNos :
          (lastOp'.op = "after" /\ lastOp'.client = c /\ lastOp'.row = r) =>
              /\ \A i \in 1..Len(lastOp'.writes) :
                    /\ lastOp'.writes[i].range \in
                           {RangeOf("Approached (Date)", r), RangeOf("Emails Sent", r)}
                    /\ lastOp'.writes[i].range \in
                           {"E" \o ToString(r + 2) \o ":E" \o ToString(r + 2),
                            "D" \o ToString(r + 2) \o ":D" \o ToString(r + 2)}
              /\ \A name \in CellNames :
                    sheet'[name] # sheet[name] =>
                        \E i \in 1..Len(lastOp'.writes) :
                            lastOp'.writes[i].range = SingleCellRange[name]
              /\ \A d \in Clients : d # c => client'[d] = client[d]
              /\ lastOp'.exc = "" => client'[c] = client[c]]_vars

C17_Witness ==
    /\ lastOp.op = "after"
    /\ lastOp.exc = ""
    /\ lastOp.row = 0
    /\ Len(lastOp.writes) = 2
    /\ lastOp.writes[1].range = "E2:E2"
    /\ lastOp.writes[2].range = "D2:D2"
    /\ sheet["E2"] = Today

\* C18: _after_email writes the date cell first and the count cell second, as
\* two separate writes: the date is never written after the count, and when
\* the call fails after one write the sheet holds the new date and the old
\* count.
C18_DateBeforeCount ==
    [][\A r \in RowNos :
          (lastOp'.op = "after" /\ lastOp'.row = r) =>
              LET w == lastOp'.writes
                  date_range == RangeOf("Approached (Date)", r)
                  count_range == RangeOf("Emails Sent", r)
              IN  /\ Len(w) <= 2
                  /\ Len(w) = 2 => w[1].range = date_range /\ w[2].range = count_range
                  /\ \A i, j \in 1..Len(w) :
                        (w[i].range = date_range /\ w[j].range = count_range) => i < j
                  /\ lastOp'.exc # "" =>
                        /\ Cell(sheet', "Emails Sent", r) = Cell(sheet, "Emails Sent", r)
                        /\ Len(w) <= 1
                        /\ Len(w) = 1 =>
                              /\ w[1] = [range |-> date_range, value |-> Today]
                              /\ Cell(sheet', "Approached (Date)", r) = Today
                  /\ lastOp'.exc = "" =>
                        /\ Len(w) >= 1
                        /\ w[Len(w)].range = count_range
                        /\ Cell(sheet', "Emails Sent", r) = w[Len(w)].value]_vars

\* the torn state: the first row's date is set and its count is still empty
C18_Witness ==
    /\ lastOp.op = "after"
    /\ lastOp.exc = "HttpError"
    /\ lastOp.row = 0
    /\ lastOp.writes = <<[range |-> "E2:E2", value |-> Today]>>
    /\ sheet["E2"] = Today
    /\ sheet["D2"] = ""
    /\ sheet["A2"] = "a@x.com"

\* C19: the cols_mapping of a loaded client gives each header the letter of
\* its position, no two headers the same letter, so the date and count ranges
\* of different rows, and the two ranges of one row, are all different cells.
C19_LettersBijective ==
    \A c \in Clients :
        client[c].status = "ready" =>
            LET cols == client[c].cols
                m == client[c].cols_mapping
                fields == {"Approached (Date)", "Emails Sent"}
            IN  /\ DOMAIN m = Range(cols)
                /\ \A i \in 1..Len(cols) : m[cols[i]] = SheetColumn(i - 1)
                /\ \A g, h \in DOMAIN m : g # h => m[g] # m[h]
                /\ \A g, h \in fields, r, q \in RowNos :
                      <<g, r>> # <<h, q>> =>
                          CellRange(m[g], r + 2) # CellRange(m[h], q + 2)

C19_Witness ==
    /\ lastOp.op = "after"
    /\ lastOp.exc = ""
    /\ Len(lastOp.writes) = 2
    /\ client[lastOp.client].status = "ready"
    /\ Len(client[lastOp.client].cols) = Width
    /\ client[lastOp.client].cols_mapping["Emails Sent"] = "D"
    /\ client[lastOp.client].cols_mapping["Approached (Date)"] = "E"

====
